---- MODULE Spec2Model ----
(***************************************************************************)
(* Model of src/main.rs (uefi-tpm2): the UEFI entry point `main`, which    *)
(* reads the TCG2 event log, refuses a truncated log, dumps and classifies *)
(* the log entries, and then issues one TPM2_GetRandom command through     *)
(* `get_random`.                                                           *)
(*                                                                         *)
(* The firmware (event log, truncated flag) and the TPM transport          *)
(* (`Tcg::submit_command`) are the environment: the log is chosen in Init, *)
(* the device's answer is chosen when the command is submitted.            *)
(***************************************************************************)
EXTENDS Integers, Sequences, FiniteSets, TLC

\* Longest event log the firmware hands over.
MaxLogLen == 2

----------------------------------------------------------------------------
(* Integer conversions: to_be_bytes / from_be_bytes and `as` casts.        *)

RECURSIVE Pow(_, _)
Pow(b, e) == IF e = 0 THEN 1 ELSE b * Pow(b, e - 1)

\* `x as u16`: keep the low 16 bits. A usize is given by any integer
\* congruent to it modulo 2^64, which leaves the low 16 bits unchanged.
AsU16(n) == n % Pow(2, 16)

\* uN::to_be_bytes with N = 8 * w: most significant byte first. Only the low
\* 8 * w bits of n are encoded, so `n as u32` is part of ToBeBytes(n, 4).
ToBeBytes(n, w) == [k \in 1..w |-> (n \div Pow(256, w - k)) % 256]

\* uN::from_be_bytes: the first byte is the most significant.
RECURSIVE FromBeBytes(_)
FromBeBytes(s) ==
    IF Len(s) = 0 THEN 0
    ELSE FromBeBytes(SubSeq(s, 1, Len(s) - 1)) * 256 + s[Len(s)]

----------------------------------------------------------------------------
(* Wire constants and layouts (main.rs 88-132).                            *)

TPM_ST_NO_SESSIONS == ToBeBytes(32769, 2)      \* 0x8001
TPM_CC_GetRandom == ToBeBytes(379, 4)          \* 0x0000017B
TPM_RC_SUCCESS == 0

\* size_of of the #[repr(C)] byte-array structs: the sum of the field sizes.
CommandHeaderSize == 2 + 4 + 4
ResponseHeaderSize == 2 + 4 + 4
GetRandomCommandSize == 2
\* Tpm2bDigest { size: [u8; 2], bytes: [u8; 0] }
Tpm2bDigestSize == 2 + 0
GetRandomResponseSize == Tpm2bDigestSize

\* size_of::<Command<GetRandomCommand>>() written without the payload.
CommandSizeHeaderOnly == CommandHeaderSize
\* size_of::<Command<GetRandomCommand>>(): header then data, no padding
\* (every field has alignment 1).
CommandSize == CommandHeaderSize + GetRandomCommandSize

\* The bytes of Command<GetRandomCommand> as transmute! lays them out:
\* tag, command_size, command_code, then the GetRandomCommand payload.
CommandBytes(tag, command_size, command_code, requested) ==
    tag \o command_size \o command_code \o requested

\* A memory cell of the response buffer that nobody wrote.
Uninit == 0 - 1

\* Number of random bytes main leaves room for (the "+ 4" of the buffer).
RandomLen == 4
\* main's buffer: [MaybeUninit::uninit(); header + response + 4].
BufferLen == ResponseHeaderSize + GetRandomResponseSize + RandomLen

\* bytes.len() - size_of::<ResponseHeader>() with the response struct forgotten.
BytesRequestedNoPrefix(len) == len - ResponseHeaderSize
\* bytes.len() - size_of::<ResponseHeader>() - size_of::<GetRandomResponse>().
\* A negative value stands for the wrapped usize (the value plus 2^64) that a
\* build without overflow checks computes.
BytesRequested(len) == len - ResponseHeaderSize - GetRandomResponseSize
\* The same subtraction overflows (panics when overflow checks are on).
BytesRequestedOverflows(len) ==
    len < ResponseHeaderSize + GetRandomResponseSize

----------------------------------------------------------------------------
(* The event log the firmware supplies.                                    *)

RecognizedTypes ==
    {"CRTM_VERSION", "EFI_PLATFORM_FIRMWARE_BLOB", "EFI_VARIABLE_DRIVER_CONFIG",
     "SEPARATOR", "EFI_BOOT_SERVICES_APPLICATION", "EFI_ACTION"}

Digest(alg, d) == [algorithm |-> alg, digest |-> d]
Event(t, p, ds, data) ==
    [event_type |-> t, pcr_index |-> p, digests |-> ds, event_data |-> data]

BothDigests == <<Digest("SHA1", "a1"), Digest("SHA256", "a256")>>

\* The entries a log is drawn from: every recognized type, two unrecognized
\* type tags, a firmware blob on PCR 0 and elsewhere, a loaded image with and
\* without a SHA-1 digest, an action with valid and with invalid UTF-8.
Events ==
    { Event("CRTM_VERSION", 0, BothDigests, <<>>),
      Event("EFI_PLATFORM_FIRMWARE_BLOB", 0, BothDigests, <<>>),
      Event("EFI_PLATFORM_FIRMWARE_BLOB", 2, BothDigests, <<>>),
      Event("EFI_VARIABLE_DRIVER_CONFIG", 1, BothDigests, <<>>),
      Event("SEPARATOR", 7, BothDigests, <<0, 0, 0, 0>>),
      Event("EFI_BOOT_SERVICES_APPLICATION", 4,
            <<Digest("SHA256", "b256"), Digest("SHA1", "b1")>>, <<>>),
      Event("EFI_BOOT_SERVICES_APPLICATION", 4,
            <<Digest("SHA256", "c256")>>, <<>>),
      Event("EFI_ACTION", 5, BothDigests, <<65, 195, 169>>),
      Event("EFI_ACTION", 5, BothDigests, <<65, 255>>),
      Event("EFI_ACTION", 5, BothDigests, <<65, 195>>),
      Event("EFI_GPT_EVENT", 5, BothDigests, <<>>),
      Event("NO_ACTION", 0, <<>>, <<>>) }

RECURSIVE SeqsUpTo(_, _)
SeqsUpTo(S, n) ==
    IF n = 0 THEN {<<>>}
    ELSE LET shorter == SeqsUpTo(S, n - 1)
         IN  shorter \cup {Append(s, e) : s \in {t \in shorter : Len(t) = n - 1}, e \in S}

EventLogs == SeqsUpTo(Events, MaxLogLen)

----------------------------------------------------------------------------
(* Event classification (main.rs 45-86).                                   *)

\* str::from_utf8 on byte sequences whose lead bytes are below 0xE0:
\* ASCII, or a two-byte sequence C2..DF 80..BF; anything else is an error.
RECURSIVE IsUtf8(_)
IsUtf8(s) ==
    IF Len(s) = 0 THEN TRUE
    ELSE IF s[1] < 128 THEN IsUtf8(Tail(s))
    ELSE IF s[1] >= 194 /\ s[1] <= 223
         THEN /\ Len(s) >= 2
              /\ s[2] >= 128 /\ s[2] <= 191
              /\ IsUtf8(Tail(Tail(s)))
    ELSE FALSE

\* event.digests().into_iter().find_map(..): the first SHA-1 digest, if any.
RECURSIVE FindSha1(_)
FindSha1(ds) ==
    IF Len(ds) = 0 THEN [found |-> FALSE, digest |-> ""]
    ELSE IF ds[1].algorithm = "SHA1" THEN [found |-> TRUE, digest |-> ds[1].digest]
    ELSE FindSha1(Tail(ds))

Class(kind, detail) == [kind |-> kind, detail |-> detail]

\* The catch-all arm written as a refusal of the unrecognized type.
ClassifyOtherAborts(event) == Class("Panic", "UnknownEventType")
\* The catch-all arm `event_type => ...` (main.rs 82-84).
ClassifyOther(event) == Class("Unknown", event.event_type)

\* One iteration of the match of the analysis loop: what is logged for the
\* entry, or the panic of an unwrap().
Classify(event) ==
    CASE event.event_type = "CRTM_VERSION" -> Class("CrtmVersion", "")
      [] event.event_type = "EFI_PLATFORM_FIRMWARE_BLOB" ->
            IF event.pcr_index = 0 THEN Class("Firmware", "")
            ELSE Class("FirmwareOtherPcr", "")
      [] event.event_type = "EFI_VARIABLE_DRIVER_CONFIG" -> Class("VariableConfig", "")
      [] event.event_type = "SEPARATOR" -> Class("Separator", "")
      [] event.event_type = "EFI_BOOT_SERVICES_APPLICATION" ->
            LET sha1 == FindSha1(event.digests)
            IN  IF sha1.found THEN Class("ImageLoaded", sha1.digest)
                ELSE Class("Panic", "UnwrapNone")
      [] event.event_type = "EFI_ACTION" ->
            IF IsUtf8(event.event_data) THEN Class("Action", "")
            ELSE Class("Panic", "Utf8Error")
      [] OTHER -> ClassifyOther(event)

----------------------------------------------------------------------------
(* The trust-anchor device behind Tcg::submit_command.                     *)

\* Values an unwritten buffer cell may turn out to hold when it is read.
GarbageBytes == {0, 127}

\* Response codes the device answers with: success and TPM_RC_FAILURE (0x101).
ResponseCodes == {0, 257}
\* Lengths the device declares in the TPM2B size prefix.
DeclaredCounts == {0, RandomLen, RandomLen + 1}
\* The random bytes the device has to offer.
DeviceRandom == <<222, 173, 190, 239, 1>>

\* A response frame: header, TPM2B length prefix, payload.
ResponseFrame(size, code, count) ==
    TPM_ST_NO_SESSIONS \o ToBeBytes(size, 4) \o ToBeBytes(code, 4)
        \o ToBeBytes(count, 2) \o SubSeq(DeviceRandom, 1, count)

\* The frames the device may answer with: the response_size is either the
\* frame's full length or the bare header length.
DeviceFrames ==
    { ResponseFrame(size, code, count) :
        size \in {ResponseHeaderSize,
                  ResponseHeaderSize + GetRandomResponseSize + RandomLen},
        code \in ResponseCodes, count \in DeclaredCounts }

Min(a, b) == IF a <= b THEN a ELSE b

\* How much of a frame f reaches a buffer of `len` cells: nothing (the
\* exchange failed), a cut inside the header, the header alone, the header
\* and the length prefix, or all that fits.
WrittenLengths(f, len) ==
    { n \in {0, ResponseHeaderSize - 2, ResponseHeaderSize,
             ResponseHeaderSize + GetRandomResponseSize, Min(Len(f), len)} :
        n <= Min(Len(f), len) }

\* What the device may write into a buffer of `len` cells: a prefix of one of
\* its frames, never more than `len` cells.
DeviceWrites(len) ==
    UNION { { SubSeq(f, 1, n) : n \in WrittenLengths(f, len) } : f \in DeviceFrames }

\* The possible values of cells read through assume_init: a written cell
\* reads as written, an unwritten one as any garbage byte.
Reads(cells) ==
    { [k \in 1..Len(cells) |-> IF cells[k] = Uninit THEN g[k] ELSE cells[k]] :
        g \in [1..Len(cells) -> GarbageBytes] }

----------------------------------------------------------------------------
(* State.                                                                  *)

VARIABLES
    truncated,      \* event_log.is_truncated()
    event_log,      \* the entries event_log.iter() yields
    pc,             \* where main (or get_random) is
    panic,          \* the panic that ended the program, "" if none
    next_event,     \* position of the analysis loop in the log
    classified,     \* what the analysis loop has logged, per entry
    bytes,          \* the response buffer (cells, Uninit where unwritten)
    written,        \* how many cells the transport wrote
    command,        \* the encoded request of the current get_random call
    sent,           \* every request handed to submit_command, in order
    response_code,  \* get_random's local of the same name
    bytes_count,    \* get_random's local of the same name
    random_bytes    \* main's `random_bytes`: the Result get_random returned

vars == <<truncated, event_log, pc, panic, next_event, classified, bytes, written,
          command, sent, response_code, bytes_count, random_bytes>>

log_vars == <<next_event, classified>>
call_vars == <<bytes, written, command, sent, response_code, bytes_count, random_bytes>>

NoResult == [kind |-> "None"]
Ok(payload) == [kind |-> "Ok", payload |-> payload]
Err(code) == [kind |-> "Err", code |-> code]

\* After get_event_log_v2().unwrap() (main.rs 28): any log, truncated or not.
Init ==
    /\ truncated \in BOOLEAN
    /\ event_log \in EventLogs
    /\ pc = "check_truncated"
    /\ panic = ""
    /\ next_event = 1
    /\ classified = <<>>
    /\ bytes = <<>>
    /\ written = 0
    /\ command = <<>>
    /\ sent = <<>>
    /\ response_code = Uninit
    /\ bytes_count = Uninit
    /\ random_bytes = NoResult

Panic(reason) ==
    /\ pc' = "panicked"
    /\ panic' = reason

----------------------------------------------------------------------------
(* main, up to the end of the analysis loop (main.rs 29-86).               *)

\* The truncation check left out: the log is dumped whatever the flag says.
MainCheckTruncatedIgnored ==
    /\ pc = "check_truncated"
    /\ pc' = "dump"
    /\ UNCHANGED <<truncated, event_log, panic, log_vars, call_vars>>

\* if event_log.is_truncated() { panic!(..) } (main.rs 29-33).
MainCheckTruncated ==
    /\ pc = "check_truncated"
    /\ IF truncated THEN Panic("LogTruncated")
       ELSE pc' = "dump" /\ UNCHANGED panic
    /\ UNCHANGED <<truncated, event_log, log_vars, call_vars>>

\* The dump loop (main.rs 35-42): only debug output, for every entry.
MainDump ==
    /\ pc = "dump"
    /\ pc' = "analyze"
    /\ UNCHANGED <<truncated, event_log, panic, log_vars, call_vars>>

\* One iteration of the analysis loop (main.rs 45-85).
MainAnalyzeEvent ==
    /\ pc = "analyze"
    /\ next_event <= Len(event_log)
    /\ LET c == Classify(event_log[next_event])
       IN  IF c.kind = "Panic"
           THEN Panic(c.detail) /\ UNCHANGED log_vars
           ELSE /\ classified' = Append(classified, c)
                /\ next_event' = next_event + 1
                /\ UNCHANGED <<pc, panic>>
    /\ UNCHANGED <<truncated, event_log, call_vars>>

\* The iterator is exhausted: main goes on to the GetRandom command.
\* let mut buffer = [MaybeUninit::uninit(); ..] (main.rs 177-179).
MainAnalyzeDone ==
    /\ pc = "analyze"
    /\ next_event > Len(event_log)
    /\ bytes' = [k \in 1..BufferLen |-> Uninit]
    /\ pc' = "gr_encode"
    /\ UNCHANGED <<truncated, event_log, panic, log_vars, written, command, sent,
                   response_code, bytes_count, random_bytes>>

----------------------------------------------------------------------------
(* get_random (main.rs 134-175).                                           *)

\* Lines 138-149: bytes_requested and the encoded command. The subtraction
\* panics on overflow in a build with overflow checks and wraps otherwise.
GetRandomEncode ==
    /\ pc = "gr_encode"
    /\ \E overflow_checks \in BOOLEAN :
         IF BytesRequestedOverflows(Len(bytes)) /\ overflow_checks
         THEN Panic("SubtractOverflow") /\ UNCHANGED command
         ELSE /\ command' = CommandBytes(TPM_ST_NO_SESSIONS,
                                         ToBeBytes(CommandSize, 4),
                                         TPM_CC_GetRandom,
                                         ToBeBytes(AsU16(BytesRequested(Len(bytes))), 2))
              /\ pc' = "gr_submit"
              /\ UNCHANGED panic
    /\ UNCHANGED <<truncated, event_log, log_vars, bytes, written, sent,
                   response_code, bytes_count, random_bytes>>

\* Line 150: tcg.submit_command(&command, bytes); the Result is dropped, so
\* a failed exchange is indistinguishable from a completed one.
GetRandomSubmit ==
    /\ pc = "gr_submit"
    /\ sent' = Append(sent, command)
    /\ \E w \in DeviceWrites(Len(bytes)) :
         /\ bytes' = [k \in 1..Len(bytes) |-> IF k <= Len(w) THEN w[k] ELSE bytes[k]]
         /\ written' = Len(w)
    /\ pc' = "gr_header"
    /\ UNCHANGED <<truncated, event_log, panic, log_vars, command,
                   response_code, bytes_count, random_bytes>>

\* Lines 152-158: the header is taken from bytes[..10], written or not, and
\* its response_code field (after tag and response_size) is decoded.
GetRandomDecodeHeader ==
    /\ pc = "gr_header"
    /\ IF Len(bytes) < ResponseHeaderSize
       THEN Panic("SliceIndex") /\ UNCHANGED response_code
       ELSE /\ \E code \in Reads(SubSeq(bytes, 2 + 4 + 1, ResponseHeaderSize)) :
                 response_code' = FromBeBytes(code)
            /\ pc' = "gr_status"
            /\ UNCHANGED panic
    /\ UNCHANGED <<truncated, event_log, log_vars, bytes, written, command, sent,
                   bytes_count, random_bytes>>

\* Lines 159-171: the success arm. The TPM2B size is read and the slice
\* bytes[start..start + len] is returned; slicing past the buffer panics.
GetRandomOk ==
    /\ pc = "gr_status"
    /\ response_code = TPM_RC_SUCCESS
    /\ LET start == ResponseHeaderSize + GetRandomResponseSize
       IN  IF Len(bytes) < start
           THEN Panic("SliceIndex") /\ UNCHANGED <<bytes_count, random_bytes>>
           ELSE \E size \in Reads(SubSeq(bytes, ResponseHeaderSize + 1, start)) :
                  /\ bytes_count' = FromBeBytes(size)
                  /\ IF start + bytes_count' > Len(bytes)
                     THEN Panic("SliceIndex") /\ UNCHANGED random_bytes
                     ELSE /\ random_bytes' = Ok(SubSeq(bytes, start + 1, start + bytes_count'))
                          /\ pc' = "gr_returned"
                          /\ UNCHANGED panic
    /\ UNCHANGED <<truncated, event_log, log_vars, bytes, written, command, sent,
                   response_code>>

\* The error arm re-submitting the request instead of returning.
GetRandomErrRetry ==
    /\ pc = "gr_status"
    /\ response_code # TPM_RC_SUCCESS
    /\ pc' = "gr_submit"
    /\ UNCHANGED <<truncated, event_log, panic, log_vars, call_vars>>

\* Lines 172-174: Err(response_code).
GetRandomErr ==
    /\ pc = "gr_status"
    /\ response_code # TPM_RC_SUCCESS
    /\ random_bytes' = Err(response_code)
    /\ pc' = "gr_returned"
    /\ UNCHANGED <<truncated, event_log, panic, log_vars, bytes, written, command, sent,
                   response_code, bytes_count>>

----------------------------------------------------------------------------
(* main after get_random (main.rs 180-208).                                *)

\* log::debug!("Random bytes: ..") and entry to the final loop.
MainLogRandom ==
    /\ pc = "gr_returned"
    /\ pc' = "stall"
    /\ UNCHANGED <<truncated, event_log, panic, log_vars, call_vars>>

\* loop { boot::stall(3_000_000); }
MainStall ==
    /\ pc = "stall"
    /\ UNCHANGED vars

Next ==
    \/ MainCheckTruncated
    \/ MainDump
    \/ MainAnalyzeEvent
    \/ MainAnalyzeDone
    \/ GetRandomEncode
    \/ GetRandomSubmit
    \/ GetRandomDecodeHeader
    \/ GetRandomOk
    \/ GetRandomErr
    \/ MainLogRandom
    \/ MainStall

Spec == Init /\ [][Next]_vars

----------------------------------------------------------------------------
(* Properties.                                                             *)

\* main is past the analysis loop.
AnalysisOver == pc \notin {"check_truncated", "dump", "analyze"}
\* get_random has handed the request to the transport.
Submitted == Len(sent) > 0
\* get_random has ended: it returned to main, or it panicked after the exchange.
CallEnded == pc \in {"gr_returned", "stall"} \/ (pc = "panicked" /\ Submitted)
\* Offset of the random bytes in a response.
PayloadStart == ResponseHeaderSize + GetRandomResponseSize

\* The device wrote the whole response get_random went on to read: header,
\* length prefix and as much of the declared payload as the buffer holds.
ResponseWritten ==
    written >= Min(Len(bytes),
                   PayloadStart + (IF bytes_count = Uninit THEN 0 ELSE bytes_count))

\* C1: a truncated log ends the program with the truncation panic before any
\* entry is classified, before any command is submitted and before any
\* result exists.
C1_TruncatedStopsFirst ==
    truncated =>
        /\ pc \in {"check_truncated", "panicked"}
        /\ pc = "panicked" => panic = "LogTruncated"
        /\ classified = <<>> /\ next_event = 1
        /\ sent = <<>> /\ command = <<>>
        /\ random_bytes = NoResult

C1_Witness ==
    truncated /\ Len(event_log) > 0 /\ pc = "panicked" /\ panic = "LogTruncated"

\* C2: in every request handed to the transport, the big-endian command_size
\* field (after the 2-byte tag) equals the number of bytes of the request.
C2_CommandSizeIsFrameLength ==
    \A f \in {command} \cup {sent[k] : k \in 1..Len(sent)} :
        f # <<>> => FromBeBytes(SubSeq(f, 2 + 1, 2 + 4)) = Len(f)

C2_Witness ==
    Len(sent) = 1 /\ Len(sent[1]) = CommandHeaderSize + GetRandomCommandSize

\* C3: a successful-status response whose declared random-bytes length runs
\* past response_size or past the end of the buffer ends the call with the
\* FrameCorrupt error (no Ok payload, no panic).
C3_OversizedFieldIsFrameCorrupt ==
    ( /\ CallEnded
      /\ ResponseWritten
      /\ response_code = TPM_RC_SUCCESS
      /\ bytes_count # Uninit /\ bytes_count > 0
      /\ \/ PayloadStart + bytes_count > Len(bytes)
         \/ PayloadStart + bytes_count > FromBeBytes(SubSeq(bytes, 2 + 1, 2 + 4)) )
    => random_bytes.kind = "FrameCorrupt"

\* C4: a response (written by the device, not stale memory) whose status is
\* not SUCCESS gives Err with exactly that status and no payload is decoded;
\* a response whose status is SUCCESS gives Ok.
C4_StatusDecidesResult ==
    (CallEnded /\ ResponseWritten /\ response_code # Uninit) =>
        IF response_code # TPM_RC_SUCCESS
        THEN random_bytes = Err(response_code) /\ bytes_count = Uninit
        ELSE random_bytes.kind = "Ok"

\* C5: in a log that is not truncated, every analysed entry of an
\* unrecognized type is classified Unknown(its tag), each analysed entry got
\* one classification, and the analysis never stops at such an entry.
C5_UnknownTypeContinues ==
    /\ Len(classified) = next_event - 1
    /\ \A k \in 1..Len(classified) :
          event_log[k].event_type \notin RecognizedTypes
              => classified[k] = Class("Unknown", event_log[k].event_type)
    /\ (pc = "panicked" /\ ~truncated /\ next_event <= Len(event_log))
          => event_log[next_event].event_type \in RecognizedTypes

C5_Witness ==
    /\ ~truncated
    /\ Len(classified) >= 2
    /\ event_log[1].event_type \notin RecognizedTypes
    /\ classified[1].kind = "Unknown"

\* C6: in a log that is not truncated, the analysis loop reaches every entry:
\* once it is over, every entry of the log has been classified.
C6_EveryEntryReached ==
    (~truncated /\ AnalysisOver) => Len(classified) = Len(event_log)

\* C7: when the transport left fewer bytes than a response header in the
\* buffer, the call ends with the FrameTooShort error and no header has been
\* decoded.
C7_ShortResponseIsFrameTooShort ==
    (CallEnded /\ written < ResponseHeaderSize) =>
        random_bytes.kind = "FrameTooShort" /\ response_code = Uninit

\* C8: a call of get_random hands exactly one request to the transport:
\* none before line 150, one from then on, whatever the response was.
C8_TransportInvokedOnce ==
    /\ Len(sent) <= 1
    /\ pc \in {"check_truncated", "dump", "analyze", "gr_encode", "gr_submit"}
          => Len(sent) = 0
    /\ pc \in {"gr_header", "gr_status", "gr_returned", "stall"} => Len(sent) = 1
    /\ (pc = "panicked" /\ panic = "SliceIndex") => Len(sent) = 1

C8_Witness ==
    /\ pc = "gr_returned"
    /\ random_bytes.kind = "Err"
    /\ Len(sent) = 1

\* C9: an Ok result is built only from bytes the transport wrote: the header,
\* the length prefix and the returned payload all lie within the written part.
C9_OnlyWrittenBytesInterpreted ==
    random_bytes.kind = "Ok" => written >= PayloadStart + bytes_count

\* C10: the bytes_requested field of the encoded request (its last two
\* bytes) satisfies header + length prefix + bytes_requested = buffer length,
\* and the subtraction that computes it did not overflow.
C10_RequestFillsBuffer ==
    /\ panic # "SubtractOverflow"
    /\ command # <<>> =>
          /\ ~BytesRequestedOverflows(Len(bytes))
          /\ BytesRequested(Len(bytes)) < Pow(2, 16)
          /\ ResponseHeaderSize + 2
               + FromBeBytes(SubSeq(command, CommandHeaderSize + 1, Len(command)))
             = Len(bytes)

C10_Witness ==
    /\ pc = "gr_submit"
    /\ Len(bytes) = BufferLen
    /\ FromBeBytes(SubSeq(command, CommandHeaderSize + 1, Len(command))) = RandomLen

====
